---- MODULE Spec2Model ----
(***************************************************************************)
(* django-locked-migrations: the lock interface (AbstractBaseLock), the    *)
(* file backend (FileLock, a wrapper of filelock.FileLock), the backend    *)
(* registry (get_backend) and the migrate command (Command.handle).        *)
(*                                                                         *)
(* Each participant is one OS process owning one lock instance; all        *)
(* instances name the same lock file.  Time is a discrete clock `now`.     *)
(***************************************************************************)
EXTENDS Integers, Sequences, FiniteSets, TLC

\* ------------------------------------------------------------------ bounds
NumProcs == 2
MaxTime == 2
MaxCount == 2

Procs == 1..NumProcs
\* the lock file with no holder (participants are numbered from 1)
Free == 0
\* timeout arguments: -1 is the unbounded sentinel, the others are finite
Timeouts == -1..(MaxTime - 1)

VARIABLES
    flock,      \* the OS-level advisory lock on the lock file: its holder or Free
    fd,         \* fd[p]: instance p's lock_file_fd is not None (BaseFileLock.is_locked)
    counter,    \* counter[p]: instance p's lock_counter (filelock's re-entrance count)
    pc,         \* pc[p]: where participant p is
    call,       \* call[p]: the acquire call p is in, and the time it has waited
    ret,        \* ret[p]: what p's last finished call was and how it ended
    inv         \* inv[p]: p's invocation of the migrate command

vars == <<flock, fd, counter, pc, call, ret, inv>>

NoCall == [by |-> "none", blocking |-> TRUE, timeout |-> -1, elapsed |-> 0]
NoRet == [op |-> "none", res |-> "none", mode |-> "none", held |-> FALSE]
NoInv == [name |-> "none", cls |-> "none", acquired |-> "none", ran |-> FALSE,
          op |-> "none", releases |-> 0, outcome |-> "none"]

\* a max() that leaves the second argument as it was before the decrement
MaxKept(a, b) == b + 1

Max(a, b) == IF a >= b THEN a ELSE b
Min(a, b) == IF a <= b THEN a ELSE b

\* the three ways of calling acquire, and the forbidden fourth
Mode(blocking, timeout) ==
    IF blocking THEN (IF timeout < 0 THEN "unbounded" ELSE "timed")
    ELSE (IF timeout > 0 THEN "nonblocking+timeout" ELSE "nonblocking")

\* ------------------------------------------------ filelock.FileLock (Unix)
\* a lock request that is granted whoever holds the file (a shared lock, LOCK_SH)
FlockShared(p, holder) == TRUE

\* UnixFileLock._acquire: open the file and fcntl.flock(fd, LOCK_EX | LOCK_NB);
\* the flock is granted only when no other open file description holds it.
FlockGranted(p, holder) == holder = Free

\* the timeout test without `0 <=`: the sentinel -1 counts as an expired timeout
GivesUpSentinel(blocking, timeout, elapsed) ==
    \/ ~blocking
    \/ timeout < elapsed

\* BaseFileLock.acquire's loop exit by failure: `if blocking is False: raise
\* Timeout` and `if 0 <= timeout < time.perf_counter() - start_time: raise Timeout`
GivesUp(blocking, timeout, elapsed) ==
    \/ ~blocking
    \/ (0 <= timeout /\ timeout < elapsed)

\* BaseFileLock.acquire entry: lock_counter += 1, start_time = perf_counter()
BeginAcquire(p, by, blocking, timeout) ==
    /\ counter[p] < MaxCount
    /\ counter' = [counter EXCEPT ![p] = @ + 1]
    /\ call' = [call EXCEPT ![p] = [by |-> by, blocking |-> blocking,
                                    timeout |-> timeout, elapsed |-> 0]]
    /\ ret' = [ret EXCEPT ![p] = NoRet]
    /\ pc' = [pc EXCEPT ![p] = "acquiring"]

\* a release without `if self.is_locked`: the file is unlocked whoever locked it
ReleasesUnchecked(locked, c) == c - 1 <= 0

\* BaseFileLock.release: `if self.is_locked: lock_counter -= 1; if lock_counter
\* == 0: self._release(); lock_counter = 0`; nothing at all on an unlocked one.
ReleasedCounter(locked, c) == IF locked THEN c - 1 ELSE c
ReleasesFile(locked, c) == locked /\ c - 1 = 0

BaseRelease(p) ==
    /\ counter' = [counter EXCEPT ![p] = ReleasedCounter(fd[p], @)]
    /\ fd' = [fd EXCEPT ![p] = IF ReleasesFile(fd[p], counter[p]) THEN FALSE ELSE @]
    /\ flock' = IF ReleasesFile(fd[p], counter[p]) THEN Free ELSE flock

\* what a finished call leaves in ret[p]; held: the instance was locked before it
Finished(p, op, res) ==
    [op |-> op, res |-> res,
     mode |-> IF op \in {"acquire", "enter", "handle"}
              THEN Mode(call[p].blocking, call[p].timeout) ELSE "none",
     held |-> fd[p]]

\* a handle that goes on whatever acquire did (`except Timeout: pass`)
HandleProceedsAlways(res) == TRUE

\* Command.handle line 60: `lock.acquire(timeout=timeout)` is a statement; only
\* an exception keeps handle from going on to the try block
HandleProceeds(res) == res # "Timeout"

\* where the caller of the acquire goes on
PcAfter(by, res) ==
    CASE by = "enter" -> IF res = "True" THEN "body" ELSE "idle"
      [] by = "handle" -> IF HandleProceeds(res) THEN "locked" ELSE "done"
      [] OTHER -> "idle"

InvAfter(p, by, res) ==
    IF by = "handle"
    THEN [inv EXCEPT ![p].acquired = res,
                     ![p].outcome = IF HandleProceeds(res) THEN @ ELSE res]
    ELSE inv

\* ------------------------------------------------------- backends/file.py
\* FileLock.acquire(blocking, timeout): self._lock.acquire(blocking=, timeout=)
Acquire(p, blocking, timeout) ==
    /\ pc[p] = "idle"
    /\ BeginAcquire(p, "acquire", blocking, timeout)
    /\ UNCHANGED <<flock, fd, inv>>

\* FileLock.__enter__: self._lock.acquire() with the instance's defaults,
\* blocking=True (constructor) and timeout=-1
Enter(p) ==
    /\ pc[p] = "idle"
    /\ BeginAcquire(p, "enter", TRUE, -1)
    /\ UNCHANGED <<flock, fd, inv>>

\* one iteration of BaseFileLock.acquire's loop, up to its break, raise or sleep
AcquirePoll(p) ==
    /\ pc[p] = "acquiring"
    /\ call[p].by \in {"acquire", "enter", "handle"}
    /\ LET granted == ~fd[p] /\ FlockGranted(p, flock)
           locked == fd[p] \/ granted
           res == IF locked THEN "True" ELSE "Timeout"
       IN /\ flock' = IF granted THEN p ELSE flock
          /\ fd' = [fd EXCEPT ![p] = locked]
          /\ IF locked \/ GivesUp(call[p].blocking, call[p].timeout, call[p].elapsed)
             THEN \* `return proxy`, whose .lock.is_locked is the result, or
                  \* `lock_counter = max(0, lock_counter - 1); raise`
                  /\ counter' = [counter EXCEPT ![p] = IF locked THEN @ ELSE Max(0, @ - 1)]
                  /\ ret' = [ret EXCEPT ![p] = Finished(p, call[p].by, res)]
                  /\ pc' = [pc EXCEPT ![p] = PcAfter(call[p].by, res)]
                  /\ inv' = InvAfter(p, call[p].by, res)
                  /\ call' = [call EXCEPT ![p] = NoCall]
             ELSE \* time.sleep(poll_interval)
                  /\ pc' = [pc EXCEPT ![p] = "sleeping"]
                  /\ UNCHANGED <<counter, ret, inv, call>>

\* a sleep that never ends
WakeNever(p) == FALSE

\* the sleep of poll_interval ends
Wake(p) ==
    /\ pc[p] = "sleeping"
    /\ pc' = [pc EXCEPT ![p] = "acquiring"]
    /\ UNCHANGED <<flock, fd, counter, call, ret, inv>>

\* FileLock.release(): self._lock.release(); a `with` body may call it too
Release(p) ==
    /\ pc[p] \in {"idle", "body"}
    /\ BaseRelease(p)
    /\ ret' = [ret EXCEPT ![p] = Finished(p, "release", "None")]
    /\ UNCHANGED <<pc, call, inv>>

\* FileLock.__exit__: self._lock.release(), whether the body raised or not
Exit(p, raised) ==
    /\ pc[p] = "body"
    /\ BaseRelease(p)
    /\ ret' = [ret EXCEPT ![p] = Finished(p, "exit", IF raised THEN "BodyError" ELSE "None")]
    /\ pc' = [pc EXCEPT ![p] = "idle"]
    /\ UNCHANGED <<call, inv>>

\* FileLock.locked(): self._lock.is_locked
Locked(p) ==
    /\ pc[p] = "idle"
    /\ ret' = [ret EXCEPT ![p] = Finished(p, "locked", IF fd[p] THEN "True" ELSE "False")]
    /\ UNCHANGED <<flock, fd, counter, pc, call, inv>>

\* Time passes: perf_counter() - start_time grows for every call in progress.
\* Only a blocking call with a finite timeout reads it, and only to compare it
\* with a timeout below MaxTime, so it is kept for those calls and up to MaxTime.
Timed(p) ==
    /\ pc[p] \in {"acquiring", "sleeping"}
    /\ Mode(call[p].blocking, call[p].timeout) = "timed"

Tick ==
    /\ \E p \in Procs : Timed(p) /\ call[p].elapsed < MaxTime
    /\ call' = [p \in Procs |->
                  IF Timed(p) THEN [call[p] EXCEPT !.elapsed = Min(@ + 1, MaxTime)]
                  ELSE call[p]]
    /\ UNCHANGED <<flock, fd, counter, pc, ret, inv>>

\* ------------------------------------- the lock API used by any participants
Init ==
    /\ flock = Free
    /\ fd = [p \in Procs |-> FALSE]
    /\ counter = [p \in Procs |-> 0]
    /\ pc = [p \in Procs |-> "idle"]
    /\ call = [p \in Procs |-> NoCall]
    /\ ret = [p \in Procs |-> NoRet]
    /\ inv = [p \in Procs |-> NoInv]

Next ==
    \/ \E p \in Procs, b \in BOOLEAN, t \in Timeouts : Acquire(p, b, t)
    \/ \E p \in Procs : Enter(p)
    \/ \E p \in Procs : AcquirePoll(p)
    \/ \E p \in Procs : Wake(p)
    \/ \E p \in Procs : Release(p)
    \/ \E p \in Procs, raised \in BOOLEAN : Exit(p, raised)
    \/ \E p \in Procs : Locked(p)
    \/ Tick

Spec == Init /\ [][Next]_vars

\* --------------------------------------------------- backends/__init__.py
\* The members of each importable module of locked_migrations.backends, in
\* the order of the module's __dict__ (imports and definitions, top to bottom).
\* "file" is backends/file.py.  "__init__" is backends/__init__.py imported
\* under its file name: a second execution of the package's code, whose class
\* AbstractBaseLock is a new class object, written AbstractBaseLock2 here.
Modules ==
    [file |-> <<"__name__", "annotations", "logging", "Any", "settings", "BaseFileLock",
                "AbstractBaseLock", "logger", "FileLock">>,
     __init__ |-> <<"__name__", "importlib", "ABC", "abstractmethod", "TracebackType",
                    "AbstractBaseLock2", "get_backend">>]

\* the classes among those members, each with its superclasses (itself included)
Mro ==
    [Any |-> {"Any", "object"},
     ABC |-> {"ABC", "object"},
     TracebackType |-> {"TracebackType", "object"},
     BaseFileLock |-> {"BaseFileLock", "object"},
     AbstractBaseLock |-> {"AbstractBaseLock", "ABC", "object"},
     AbstractBaseLock2 |-> {"AbstractBaseLock2", "ABC", "object"},
     FileLock |-> {"FileLock", "AbstractBaseLock", "ABC", "object"}]

\* the test without `val is not AbstractBaseLock`
QualifiesAbstract(val) == val \in DOMAIN Mro /\ "AbstractBaseLock" \in Mro[val]

\* issubclass(val, AbstractBaseLock); TypeError (val is no class) is `continue`
IsSubclass(val) == val \in DOMAIN Mro /\ "AbstractBaseLock" \in Mro[val]

\* `if is_subclass and val is not AbstractBaseLock`
Qualifies(val) == IsSubclass(val) /\ val # "AbstractBaseLock"

\* the for loop over module.__dict__.values(), from member i on
RECURSIVE ScanFrom(_, _)
ScanFrom(vals, i) ==
    IF i > Len(vals) THEN "ValueError"
    ELSE IF Qualifies(vals[i]) THEN vals[i]
    ELSE ScanFrom(vals, i + 1)

\* get_backend(name): importlib.import_module fails for a module that does not exist
get_backend(name) ==
    IF name \notin DOMAIN Modules THEN "ModuleNotFoundError"
    ELSE ScanFrom(Modules[name], 1)

BackendNames == {"file", "__init__", "redis"}
Errors == {"ModuleNotFoundError", "ValueError"}

\* ------------------------------------------- management/commands/migrate.py
\* what the base migrate command's handle returns or raises
BaseOutcomes == {"None", "CommandError", "OperationalError"}

\* --lock-backend NAME: GetBackend.__call__ puts get_backend(NAME) on the
\* namespace; a failure ends the invocation before handle is called
Resolve(p, name) ==
    /\ pc[p] = "start"
    /\ LET cls == get_backend(name)
       IN /\ inv' = [inv EXCEPT ![p].name = name, ![p].cls = cls,
                                ![p].outcome = IF cls \in Errors THEN cls ELSE @]
          /\ pc' = [pc EXCEPT ![p] = IF cls \in Errors THEN "done" ELSE "ready"]
    /\ UNCHANGED <<flock, fd, counter, call, ret>>

\* handle lines 56-60: lock = Lock(); lock.acquire(timeout=timeout)
HandleAcquire(p, timeout) ==
    /\ pc[p] = "ready"
    /\ inv[p].cls = "FileLock"
    /\ BeginAcquire(p, "handle", TRUE, timeout)
    /\ UNCHANGED <<flock, fd, inv>>

\* handle line 63: super().handle(*args, **options) is entered
RunBase(p) ==
    /\ pc[p] = "locked"
    /\ pc' = [pc EXCEPT ![p] = "migrating"]
    /\ inv' = [inv EXCEPT ![p].ran = TRUE]
    /\ UNCHANGED <<flock, fd, counter, call, ret>>

\* the base handle returns or raises; control reaches the finally clause
FinishBase(p, out) ==
    /\ pc[p] = "migrating"
    /\ pc' = [pc EXCEPT ![p] = "finally"]
    /\ inv' = [inv EXCEPT ![p].op = out]
    /\ UNCHANGED <<flock, fd, counter, call, ret>>

\* release after the call instead of in a finally clause: skipped when it raises
ReachesOnReturn(out) == out = "None"

\* a handle that reports every failure of the base command as a CommandError
PropagatedWrapped(out) == IF out = "None" THEN out ELSE "CommandError"

\* try/finally: the finally clause runs whether the base handle returned or raised
ReachesFinally(out) == TRUE

\* what handle gives its caller once the finally clause has run without raising
Propagated(out) == out

\* handle lines 64-65: finally: lock.release(); then the outcome of the try
\* block is returned or re-raised
HandleRelease(p) ==
    /\ pc[p] = "finally"
    /\ IF ReachesFinally(inv[p].op)
       THEN /\ BaseRelease(p)
            /\ ret' = [ret EXCEPT ![p] = Finished(p, "release", "None")]
            /\ inv' = [inv EXCEPT ![p].releases = @ + 1,
                                  ![p].outcome = Propagated(inv[p].op)]
       ELSE /\ inv' = [inv EXCEPT ![p].outcome = Propagated(inv[p].op)]
            /\ UNCHANGED <<flock, fd, counter, ret>>
    /\ pc' = [pc EXCEPT ![p] = "done"]
    /\ UNCHANGED call

\* concurrent invocations of `migrate`, each in its own process (tests/concurrency.py)
InitWrapper ==
    /\ flock = Free
    /\ fd = [p \in Procs |-> FALSE]
    /\ counter = [p \in Procs |-> 0]
    /\ pc = [p \in Procs |-> "start"]
    /\ call = [p \in Procs |-> NoCall]
    /\ ret = [p \in Procs |-> NoRet]
    /\ inv = [p \in Procs |-> NoInv]

NextWrapper ==
    \/ \E p \in Procs, name \in BackendNames : Resolve(p, name)
    \/ \E p \in Procs, t \in Timeouts : HandleAcquire(p, t)
    \/ \E p \in Procs : AcquirePoll(p)
    \/ \E p \in Procs : Wake(p)
    \/ \E p \in Procs : RunBase(p)
    \/ \E p \in Procs, out \in BaseOutcomes : FinishBase(p, out)
    \/ \E p \in Procs : HandleRelease(p)
    \/ Tick

SpecWrapper == InitWrapper /\ [][NextWrapper]_vars

\* The same invocations with a finite timeout each.  Every participant is a
\* process of its own that the operating system keeps running, the base
\* command returns or raises in the end, and time passes.
FiniteTimeouts == {t \in Timeouts : t >= 0}

ProcStep(p) ==
    \/ \E name \in BackendNames : Resolve(p, name)
    \/ \E t \in FiniteTimeouts : HandleAcquire(p, t)
    \/ AcquirePoll(p)
    \/ Wake(p)
    \/ RunBase(p)
    \/ \E out \in BaseOutcomes : FinishBase(p, out)
    \/ HandleRelease(p)

NextFinite ==
    \/ \E p \in Procs : ProcStep(p)
    \/ Tick

SpecWrapperFair ==
    /\ InitWrapper
    /\ [][NextFinite]_vars
    /\ \A p \in Procs : WF_vars(ProcStep(p))
    /\ WF_vars(Tick)

\* Participants that call acquire and release, with the loop of acquire kept
\* running: a caller inside acquire goes on to its next attempt and its sleep
\* ends.  Nothing obliges a participant to make a new call.
NextWaiters ==
    \/ \E p \in Procs, b \in BOOLEAN, t \in Timeouts : Acquire(p, b, t)
    \/ \E p \in Procs : AcquirePoll(p)
    \/ \E p \in Procs : Wake(p)
    \/ \E p \in Procs : Release(p)
    \/ Tick

SpecFair ==
    /\ Init
    /\ [][NextWaiters]_vars
    /\ \A p \in Procs : WF_vars(AcquirePoll(p)) /\ WF_vars(Wake(p))

\* ---------------------------- a backend as AbstractBaseLock documents it
\* handle takes any type[AbstractBaseLock] as its lock_backend option
\* (call_command('migrate', lock_backend=SomeLock)).  ContractLock is a backend
\* that does what the docstrings of AbstractBaseLock.acquire and release say:
\* one shared locked/unlocked state (flock: the participant whose acquire
\* locked it, or Free) that any participant may release.

\* "block for at most the number of seconds specified by timeout"
ContractExpired(timeout, elapsed) == 0 <= timeout /\ timeout <= elapsed

\* handle lines 59-60 with such a backend
ContractHandleAcquire(p, timeout) ==
    /\ pc[p] = "ready"
    /\ inv[p].cls = "ContractLock"
    /\ call' = [call EXCEPT ![p] = [by |-> "handle", blocking |-> TRUE,
                                    timeout |-> timeout, elapsed |-> 0]]
    /\ pc' = [pc EXCEPT ![p] = "waiting"]
    /\ UNCHANGED <<flock, fd, counter, ret, inv>>

\* acquire returns: "block until the lock is unlocked, then set it to locked and
\* return True"; "False if not (for example if the timeout expired)"
ContractAcquireReturns(p) ==
    /\ pc[p] = "waiting"
    /\ flock = Free \/ ContractExpired(call[p].timeout, call[p].elapsed)
    /\ LET res == IF flock = Free THEN "True" ELSE "False"
       IN /\ flock' = IF flock = Free THEN p ELSE flock
          /\ ret' = [ret EXCEPT ![p] = Finished(p, "handle", res)]
          /\ pc' = [pc EXCEPT ![p] = PcAfter("handle", res)]
          /\ inv' = InvAfter(p, "handle", res)
    /\ call' = [call EXCEPT ![p] = NoCall]
    /\ UNCHANGED <<fd, counter>>

\* handle lines 64-65 with such a backend; release: "When the lock is locked,
\* reset it to unlocked"; "When invoked on an unlocked lock, a RuntimeError is
\* raised", which then replaces the outcome of the try block
ContractHandleRelease(p) ==
    /\ pc[p] = "finally"
    /\ flock' = Free
    /\ ret' = [ret EXCEPT ![p] = [op |-> "release", mode |-> "none", held |-> flock = p,
                                  res |-> IF flock = Free THEN "RuntimeError" ELSE "None"]]
    /\ inv' = [inv EXCEPT ![p].releases = @ + 1,
                          ![p].outcome = IF flock = Free THEN "RuntimeError"
                                         ELSE Propagated(inv[p].op)]
    /\ pc' = [pc EXCEPT ![p] = "done"]
    /\ UNCHANGED <<fd, counter, call>>

\* time passes for the waiting callers of ContractLock.acquire
ContractTick ==
    /\ \E p \in Procs : pc[p] = "waiting" /\ call[p].elapsed < MaxTime
    /\ call' = [p \in Procs |->
                  IF pc[p] = "waiting" THEN [call[p] EXCEPT !.elapsed = Min(@ + 1, MaxTime)]
                  ELSE call[p]]
    /\ UNCHANGED <<flock, fd, counter, pc, ret, inv>>

InitContract ==
    /\ flock = Free
    /\ fd = [p \in Procs |-> FALSE]
    /\ counter = [p \in Procs |-> 0]
    /\ pc = [p \in Procs |-> "ready"]
    /\ call = [p \in Procs |-> NoCall]
    /\ ret = [p \in Procs |-> NoRet]
    /\ inv = [p \in Procs |-> [NoInv EXCEPT !.cls = "ContractLock"]]

NextContract ==
    \/ \E p \in Procs, t \in Timeouts : ContractHandleAcquire(p, t)
    \/ \E p \in Procs : ContractAcquireReturns(p)
    \/ \E p \in Procs : RunBase(p)
    \/ \E p \in Procs, out \in BaseOutcomes : FinishBase(p, out)
    \/ \E p \in Procs : ContractHandleRelease(p)
    \/ ContractTick

SpecContract == InitContract /\ [][NextContract]_vars

\* ------------------------------------------------------------ properties
Running == {p \in Procs : pc[p] = "migrating"}
Holders == {p \in Procs : fd[p]}
Failed(r) == r.res \notin {"True", "none"}

\* C1: under SpecWrapper (the file backend, as get_backend resolves it) no two
\* invocations of handle are inside the base migrate handle at the same time.
C1_NoOverlap == Cardinality(Running) <= 1

\* C1 witness: one invocation runs the base handle while another, which has
\* asked for the same lock, found it held and sleeps until its next attempt.
C1_Witness ==
    \E p, q \in Procs :
        /\ p # q /\ pc[p] = "migrating"
        /\ pc[q] = "sleeping" /\ call[q].by = "handle"

\* C2: under Spec (any calls of acquire, release, __enter__/__exit__ by any
\* participant) at most one instance is locked, and it is the one the
\* operating system gave the lock to.
C2_AtMostOneHolder ==
    /\ Cardinality(Holders) <= 1
    /\ \A p \in Procs : fd[p] => flock = p

\* C2 witness: p holds the lock after q held it and released it, and q, asking
\* again, is waiting.
C2_Witness ==
    \E p, q \in Procs :
        /\ p # q /\ fd[p] /\ counter[p] = 1
        /\ pc[q] = "sleeping" /\ ~fd[q]

\* C3: under SpecContract, an invocation whose acquire did not succeed (False
\* or Timeout) never runs the base handle and ends with the acquisition
\* timeout as its outcome.
C3_AbortsWhenNotAcquired ==
    \A p \in Procs :
        inv[p].acquired \in {"False", "Timeout"} =>
            /\ ~inv[p].ran
            /\ pc[p] \notin {"locked", "migrating", "finally"}
            /\ pc[p] = "done" => inv[p].outcome \in {"False", "Timeout"}

\* C4: under SpecWrapper, an invocation that acquired the lock and has ended,
\* whatever the base handle did, has called release once, its instance is
\* unlocked, and once no invocation is between acquire and release the lock
\* file is free: the first attempt of a fresh instance is granted.
C4_ReleasedOnEveryPath ==
    \A p \in Procs :
        (pc[p] = "done" /\ inv[p].acquired = "True") =>
            /\ inv[p].releases = 1
            /\ ~fd[p] /\ counter[p] = 0 /\ flock # p
            /\ (\A q \in Procs : ~fd[q]) => FlockGranted(p, flock)

\* C4 witness: an invocation whose base handle raised has ended.
C4_Witness ==
    \E p \in Procs :
        /\ pc[p] = "done" /\ inv[p].acquired = "True"
        /\ inv[p].op = "OperationalError"
        /\ \A q \in Procs : ~fd[q]

\* C5: under SpecWrapper, an ended invocation of handle has the base handle's
\* outcome if the base handle ran, and the acquisition Timeout otherwise; the
\* base handle ran exactly when acquire returned True.
C5_OutcomePropagated ==
    \A p \in Procs :
        (pc[p] = "done" /\ inv[p].cls = "FileLock") =>
            /\ inv[p].ran <=> inv[p].acquired = "True"
            /\ inv[p].outcome = IF inv[p].ran THEN inv[p].op ELSE "Timeout"

\* C5 witness: one invocation ended with the base handle's error and another
\* with the acquisition timeout.
C5_Witness ==
    \E p, q \in Procs :
        /\ pc[p] = "done" /\ inv[p].outcome = "OperationalError"
        /\ pc[q] = "done" /\ inv[q].outcome = "Timeout"

\* C6: under Spec, acquire(blocking=True, timeout=T) with T >= 0 that did not
\* get the lock returns False.
C6_TimedAcquireReturnsFalse ==
    \A p \in Procs :
        (ret[p].op = "acquire" /\ ret[p].mode = "timed" /\ Failed(ret[p])) =>
            ret[p].res = "False"

\* C6, the part about time: such a call gives up only after more than T has
\* elapsed, and never while it is not waiting for another holder.
C6_NotBeforeTimeout ==
    [][\A p \in Procs :
          (pc[p] = "acquiring" /\ call[p].by = "acquire"
              /\ Mode(call[p].blocking, call[p].timeout) = "timed"
              /\ pc'[p] = "idle" /\ ~fd'[p]) =>
             (call[p].elapsed > call[p].timeout /\ flock \notin {Free, p})]_vars

\* C7: under Spec, acquire(blocking=False) never sleeps and, when it did not
\* get the lock, returns False.
C7_NonBlockingReturnsFalse ==
    \A p \in Procs :
        /\ pc[p] = "sleeping" => call[p].blocking
        /\ (ret[p].op = "acquire" /\ ret[p].mode = "nonblocking" /\ Failed(ret[p])) =>
               ret[p].res = "False"

\* C8: under Spec, release() on an instance that is not locked fails with
\* RuntimeError.
C8_ReleaseUnlockedRaises ==
    \A p \in Procs :
        (ret[p].op = "release" /\ ~ret[p].held) => ret[p].res = "RuntimeError"

\* C9: under SpecWrapper, get_backend("file") is FileLock, every other name
\* fails and ends the invocation, no name gives AbstractBaseLock, and two
\* lookups of one name agree.
C9_ResolvesOrFails ==
    \A p \in Procs :
        inv[p].name # "none" =>
            /\ inv[p].cls # "AbstractBaseLock"
            /\ inv[p].name = "file" => inv[p].cls = "FileLock"
            /\ inv[p].name # "file" => (inv[p].cls \in Errors /\ pc[p] = "done")
            /\ \A q \in Procs : inv[q].name = inv[p].name => inv[q].cls = inv[p].cls

\* C9 witness: the three kinds of name have been looked up: the backend, a
\* module without a backend, and a module that does not exist.
C9_Witness ==
    /\ \E p \in Procs : inv[p].name = "file" /\ pc[p] = "ready"
    /\ \E p \in Procs : inv[p].cls \in Errors

\* C10: under Spec, after __exit__ the instance is not locked.
C10_UnlockedAfterScope ==
    \A p \in Procs : ret[p].op = "exit" => ~fd[p]

\* C11: under Spec, release() on a locked instance leaves the lock file
\* unlocked by that instance (so that one waiter can take it).
C11_ReleaseUnlocks ==
    \A p \in Procs :
        (ret[p].op = "release" /\ ret[p].held) => (~fd[p] /\ flock # p)

\* C11, the part that holds: a step gives the lock file to at most one
\* participant, and only when nobody held it.
C11_OneProceeds ==
    [][\A p \in Procs : (flock # p /\ flock' = p) => (flock = Free /\ ~fd[p] /\ fd'[p])]_vars

\* C12: under Spec, acquire(blocking=False, timeout=T) with T > 0 is rejected
\* as a caller error and the instance is not locked by it.
C12_NonBlockingTimeoutRejected ==
    \A p \in Procs :
        (ret[p].op = "acquire" /\ ret[p].mode = "nonblocking+timeout") =>
            (ret[p].res = "ValueError" /\ (fd[p] => ret[p].held))

\* C13: under SpecContract, an ended invocation has called release once if
\* its acquire returned True and never otherwise, and no release raised
\* RuntimeError.
C13_ReleaseIffAcquired ==
    \A p \in Procs :
        /\ pc[p] = "done" =>
              inv[p].releases = (IF inv[p].acquired = "True" THEN 1 ELSE 0)
        /\ (ret[p].op = "release" => ret[p].held /\ ret[p].res # "RuntimeError")

\* C16: under Spec, a blocking acquire with timeout -1 (acquire, or __enter__)
\* ends only by returning True with the instance locked.
C16_UnboundedNeverFails ==
    \A p \in Procs :
        (ret[p].op \in {"acquire", "enter", "handle"} /\ ret[p].mode = "unbounded") =>
            (ret[p].res = "True" /\ fd[p] /\ flock = p)

\* C16 witness: an unbounded acquire has returned True on a lock that another
\* participant had held and has released.
C16_Witness ==
    \E p, q \in Procs :
        /\ p # q
        /\ ret[p].op = "acquire" /\ ret[p].mode = "unbounded" /\ ret[p].res = "True"
        /\ ret[q].op = "release" /\ ret[q].held /\ ~fd[q]

\* C17: under Spec, locked() returns True exactly when the lock file is held
\* by any participant, and changes nothing but the caller's result.
C17_LockedObservesIdentity ==
    [][\A p \in Procs :
          (ret'[p].op = "locked" /\ ret'[p] # ret[p]) =>
             /\ (ret'[p].res = "True") <=> (flock # Free)
             /\ UNCHANGED <<flock, fd, counter, pc, call>>]_vars

\* C17, the part that holds: locked() reports the caller's own instance.
C17_LockedObservesInstance ==
    [][\A p \in Procs :
          (ret'[p].op = "locked" /\ ret'[p] # ret[p]) =>
             /\ (ret'[p].res = "True") <=> fd[p]
             /\ UNCHANGED <<flock, fd, counter, pc, call>>]_vars

\* C18: under Spec, the step in which an acquire fails leaves the lock file
\* with the other participant that held it, and the caller with an unlocked
\* instance whose counter is back to 0.
C18_FailedAcquireNoEffect ==
    [][\A p \in Procs :
          (pc[p] = "acquiring" /\ pc'[p] # "sleeping" /\ ret'[p].res = "Timeout") =>
             /\ flock' = flock /\ flock \notin {Free, p}
             /\ fd' = fd /\ ~fd'[p]
             /\ counter'[p] = 0]_vars

\* C18 witness: an acquire has failed and the holder still holds the lock.
C18_Witness ==
    \E p, q \in Procs :
        /\ p # q /\ ret[p].op = "acquire" /\ ret[p].res = "Timeout"
        /\ fd[q] /\ flock = q

PathSteps ==
    {<<"start", "ready">>, <<"start", "done">>, <<"ready", "acquiring">>,
     <<"acquiring", "sleeping">>, <<"sleeping", "acquiring">>,
     <<"acquiring", "locked">>, <<"acquiring", "done">>,
     <<"locked", "migrating">>, <<"migrating", "finally">>, <<"finally", "done">>}

AllDone == \A p \in Procs : pc[p] = "done" /\ ~fd[p] /\ flock # p

C14_EveryInvocationFinishes ==
    /\ [][\A p \in Procs : pc'[p] # pc[p] => <<pc[p], pc'[p]>> \in PathSteps]_vars
    /\ <>[]AllDone

\* C14 witness: all invocations are done, one after running the base command
\* and one after its acquire timed out.
C14_Witness ==
    /\ \A p \in Procs : pc[p] = "done"
    /\ \E p, q \in Procs :
         /\ inv[p].ran /\ inv[p].outcome = inv[p].op
         /\ inv[q].acquired = "Timeout" /\ ~inv[q].ran

\* C15: under SpecFair, whenever the lock file is free while a participant
\* is in a blocking acquire whose timeout has not elapsed, the lock file is
\* taken later on.
Waiting(p) ==
    /\ pc[p] \in {"acquiring", "sleeping"}
    /\ call[p].blocking
    /\ ~(0 <= call[p].timeout /\ call[p].timeout < call[p].elapsed)

C15_FreeLockIsTaken ==
    (flock = Free /\ \E p \in Procs : Waiting(p)) ~> (flock # Free)

\* C15 witness: the holder has released the lock while another participant,
\* having found it held, sleeps in a blocking acquire.
C15_Witness ==
    \E p, q \in Procs :
        /\ p # q /\ flock = Free
        /\ pc[p] = "sleeping" /\ Waiting(p)
        /\ ret[q].op = "release" /\ ret[q].held

TypeOK ==
    /\ flock \in Procs \cup {Free}
    /\ fd \in [Procs -> BOOLEAN]
    /\ counter \in [Procs -> 0..MaxCount]
    /\ pc \in [Procs -> {"idle", "acquiring", "sleeping", "body", "start", "ready",
                         "waiting", "locked", "migrating", "finally", "done"}]
====
